---- MODULE Spec2Model ----
(***************************************************************************)
(* Integer fixed-point VIF feature extractor                               *)
(* (libvmaf/src/feature/integer_vif.c).                                    *)
(*                                                                         *)
(* The C code computes in uint16_t, uint32_t, int32_t, uint64_t, int64_t   *)
(* and float.  TLC's integers are 32-bit signed, so every C value that can *)
(* exceed 2^31 - 1 is held as a multi-precision natural: a little-endian   *)
(* sequence of base-2^8 digits without leading zero digits (<<>> is 0).    *)
(* A C width is then a digit count: uint16_t 2, uint32_t 4, uint64_t 8.    *)
(***************************************************************************)
EXTENDS Integers, Sequences, FiniteSets, TLC

Radix == 2^8

Max(a, b) == IF a >= b THEN a ELSE b
Min(a, b) == IF a <= b THEN a ELSE b

Pow2(n) == 2^n

(* ---------------- multi-precision naturals ---------------- *)

Digit(d, i) == IF i >= 1 /\ i <= Len(d) THEN d[i] ELSE 0

RECURSIVE Strip(_)
Strip(d) ==
    IF Len(d) > 0 /\ d[Len(d)] = 0 THEN Strip(SubSeq(d, 1, Len(d) - 1)) ELSE d

(* Column sums cols[i..] plus carry c, as digits. *)
RECURSIVE Carry(_, _, _)
Carry(cols, i, c) ==
    IF i > Len(cols)
    THEN IF c = 0 THEN <<>> ELSE <<c % Radix>> \o Carry(cols, i, c \div Radix)
    ELSE LET t == cols[i] + c
         IN  <<t % Radix>> \o Carry(cols, i + 1, t \div Radix)

Normalize(cols) == Strip(Carry(cols, 1, 0))

FromInt(n) == Normalize(<<n>>)

RECURSIVE ToInt(_)
ToInt(d) == IF Len(d) = 0 THEN 0 ELSE d[1] + Radix * ToInt(Tail(d))

RECURSIVE AddCols(_, _, _, _)
AddCols(a, b, i, n) ==
    IF i > n THEN <<>> ELSE <<Digit(a, i) + Digit(b, i)>> \o AddCols(a, b, i + 1, n)

AddD(a, b) == Normalize(AddCols(a, b, 1, Max(Len(a), Len(b))))

(* a - b for a >= b *)
RECURSIVE SubBorrow(_, _, _, _, _)
SubBorrow(a, b, i, n, br) ==
    IF i > n THEN <<>>
    ELSE LET t == Digit(a, i) - Digit(b, i) - br
         IN  IF t < 0 THEN <<t + Radix>> \o SubBorrow(a, b, i + 1, n, 1)
                      ELSE <<t>> \o SubBorrow(a, b, i + 1, n, 0)

SubD(a, b) == Strip(SubBorrow(a, b, 1, Max(Len(a), Len(b)), 0))

(* -1, 0, 1 as a < b, a = b, a > b; a and b stripped *)
RECURSIVE CmpFrom(_, _, _)
CmpFrom(a, b, i) ==
    IF i = 0 THEN 0
    ELSE IF a[i] < b[i] THEN -1
    ELSE IF a[i] > b[i] THEN 1
    ELSE CmpFrom(a, b, i - 1)

CmpD(a, b) ==
    IF Len(a) < Len(b) THEN -1
    ELSE IF Len(a) > Len(b) THEN 1
    ELSE CmpFrom(a, b, Len(a))

RECURSIVE MulIntCols(_, _, _)
MulIntCols(d, f, i) ==
    IF i > Len(d) THEN <<>> ELSE <<d[i] * f>> \o MulIntCols(d, f, i + 1)

(* d * f for a machine integer 0 <= f < 2^22 *)
MulInt(d, f) == Normalize(MulIntCols(d, f, 1))

RECURSIVE MulCol(_, _, _, _)
MulCol(a, b, k, i) ==
    IF i > Len(a) \/ i > k THEN 0
    ELSE a[i] * Digit(b, k - i + 1) + MulCol(a, b, k, i + 1)

RECURSIVE MulCols(_, _, _)
MulCols(a, b, k) ==
    IF k > Len(a) + Len(b) - 1 THEN <<>>
    ELSE <<MulCol(a, b, k, 1)>> \o MulCols(a, b, k + 1)

MulD(a, b) == IF Len(a) = 0 \/ Len(b) = 0 THEN <<>> ELSE Normalize(MulCols(a, b, 1))

(* floor(d / n) and d mod n for a machine integer 0 < n < 2^22 *)
RECURSIVE DivRem(_, _, _, _)
DivRem(d, n, i, r) ==
    IF i = 0 THEN [q |-> <<>>, r |-> r]
    ELSE LET t    == r * Radix + d[i]
             rest == DivRem(d, n, i - 1, t % n)
         IN  [q |-> rest.q \o <<t \div n>>, r |-> rest.r]

DivInt(d, n) == Strip(DivRem(d, n, Len(d), 0).q)
RemInt(d, n) == DivRem(d, n, Len(d), 0).r

(* the low n digits: d mod 2^(8n) *)
LowDigits(d, n) == Strip(SubSeq(d, 1, Min(n, Len(d))))

DropDigits(d, n) == IF n >= Len(d) THEN <<>> ELSE SubSeq(d, n + 1, Len(d))

RECURSIVE ShrBits(_, _, _)
ShrBits(d, r, i) ==
    IF i > Len(d) THEN <<>>
    ELSE <<(d[i] \div Pow2(r)) + (Digit(d, i + 1) % Pow2(r)) * Pow2(8 - r)>>
         \o ShrBits(d, r, i + 1)

(* d >> k, k >= 0 *)
Shr(d, k) == Strip(ShrBits(DropDigits(d, k \div 8), k % 8, 1))

Zeros(n) == [i \in 1..n |-> 0]

(* d << k, k >= 0, unbounded *)
Shl(d, k) ==
    IF Len(d) = 0 THEN <<>> ELSE Zeros(k \div 8) \o MulInt(d, Pow2(k % 8))

RECURSIVE BitLenInt(_)
BitLenInt(n) == IF n = 0 THEN 0 ELSE 1 + BitLenInt(n \div 2)

(* number of significant bits; 0 for 0 *)
BitLen(d) == IF Len(d) = 0 THEN 0 ELSE 8 * (Len(d) - 1) + BitLenInt(d[Len(d)])

IsZero(d) == Len(d) = 0

(* does d fit in n bytes *)
Fits(d, n) == Len(d) <= n

(* ---------------- best-16-bit normalisation ---------------- *)

(* __builtin_clz on uint32_t, __builtin_clzll on uint64_t (argument nonzero) *)
clz32(v) == 32 - BitLen(v)
clz64(v) == 64 - BitLen(v)

(* integer_get_best_16bits_opt_greater: k = 16 - clz(temp); temp >>= k; x = -k.
   ub: temp = 0 (clz undefined) or k < 0 (shift by a negative amount); the
   returned mantissa m is then unspecified and only x is reported.  *)
integer_get_best_16bits_opt_greater(temp) ==
    LET k == 16 - clz32(temp)
    IN  IF IsZero(temp) \/ k < 0
        THEN [m |-> 0, x |-> -k, ub |-> TRUE]
        ELSE [m |-> ToInt(LowDigits(Shr(temp, k), 2)), x |-> -k, ub |-> FALSE]

(* a faulty variant of integer_get_best_16bits_opt_64: the right shift is
   one place short of the exponent it reports                              *)
integer_get_best_16bits_opt_64_short(temp) ==
    LET k == clz64(temp)
    IN  IF IsZero(temp) THEN [m |-> 0, x |-> 0, ub |-> TRUE]
        ELSE IF k > 48
        THEN [m |-> ToInt(LowDigits(Shl(temp, k - 48), 2)), x |-> k - 48, ub |-> FALSE]
        ELSE IF k < 47
        THEN [m |-> ToInt(LowDigits(Shr(temp, 47 - k), 2)), x |-> -(48 - k), ub |-> FALSE]
        ELSE [m |-> ToInt(LowDigits(temp, 2)), x |-> 0, ub |-> FALSE]

(* integer_get_best_16bits_opt_64 *)
integer_get_best_16bits_opt_64(temp) ==
    LET k == clz64(temp)
    IN  IF IsZero(temp) THEN [m |-> 0, x |-> 0, ub |-> TRUE]
        ELSE IF k > 48
        THEN [m |-> ToInt(LowDigits(Shl(temp, k - 48), 2)), x |-> k - 48, ub |-> FALSE]
        ELSE IF k < 47
        THEN [m |-> ToInt(LowDigits(Shr(temp, 48 - k), 2)), x |-> -(48 - k), ub |-> FALSE]
        ELSE IF ~IsZero(Shr(temp, 16))
        THEN [m |-> ToInt(LowDigits(Shr(temp, 1), 2)), x |-> -1, ub |-> FALSE]
        ELSE [m |-> ToInt(LowDigits(temp, 2)), x |-> 0, ub |-> FALSE]

(* ---------------- IEEE-754 binary32 arithmetic ---------------- *)

(* A float is [s, m, e] with value s * m * 2^e, s in {-1, 0, 1}, and
   2^23 <= m < 2^24 unless s = 0 (then m = 0, e = 0).  The values of this
   program stay far from the subnormal and overflow ranges.               *)
FZero == [s |-> 0, m |-> 0, e |-> 0]

(* sign * mag * 2^e rounded to 24 significant bits, ties to even *)
RoundMag(sign, mag, e) ==
    LET Pack(q1, sh) ==
            IF q1 = Pow2(24)
            THEN [s |-> sign, m |-> Pow2(23), e |-> e + sh + 1]
            ELSE [s |-> sign, m |-> q1, e |-> e + sh]
        Up(q, top, sh) ==
            Pack(IF Digit(top, 1) % 2 = 1
                    /\ (CmpD(Shl(top, sh - 1), mag) # 0 \/ q % 2 = 1)
                 THEN q + 1 ELSE q, sh)
        Cut(bl) ==
            IF bl <= 24
            THEN [s |-> sign, m |-> ToInt(Shl(mag, 24 - bl)), e |-> e - (24 - bl)]
            ELSE Up(ToInt(Shr(mag, bl - 24)), Shr(mag, bl - 25), bl - 24)
    IN  IF IsZero(mag) \/ sign = 0 THEN FZero ELSE Cut(BitLen(mag))

FFromInt(n) ==
    IF n = 0 THEN FZero
    ELSE RoundMag(IF n < 0 THEN -1 ELSE 1, FromInt(IF n < 0 THEN -n ELSE n), 0)

FMul(a, b) ==
    IF a.s = 0 \/ b.s = 0 THEN FZero
    ELSE RoundMag(a.s * b.s, MulD(FromInt(a.m), FromInt(b.m)), a.e + b.e)

(* The operand of smaller exponent, when more than 40 binary places below
   the other, only decides the direction of rounding: it is replaced by one
   unit 40 places below, which rounds the same way.                        *)
FAdd(a, b) ==
    LET Signed(hi, lo, A, B, c) ==
            IF c = 0 THEN FZero
            ELSE RoundMag(IF c > 0 THEN hi.s ELSE lo.s,
                          IF c = 2 THEN AddD(A, B)
                          ELSE IF c > 0 THEN SubD(A, B) ELSE SubD(B, A),
                          lo.e)
        Sum(hi, lo, A, B) ==
            Signed(hi, lo, A, B, IF hi.s = lo.s THEN 2 ELSE CmpD(A, B))
        Aligned(hi, lo) ==
            Sum(hi, lo, Shl(FromInt(hi.m), hi.e - lo.e), FromInt(lo.m))
        Ordered(hi, lo0) ==
            Aligned(hi, IF hi.e - lo0.e > 40
                        THEN [s |-> lo0.s, m |-> 1, e |-> hi.e - 40] ELSE lo0)
    IN  IF a.s = 0 THEN b
        ELSE IF b.s = 0 THEN a
        ELSE IF a.e >= b.e THEN Ordered(a, b) ELSE Ordered(b, a)

(* ---------------- log table ---------------- *)

(* a faulty variant of log2_poly_s: the coefficient of x is 1.5 *)
log2_poly_s_coarse ==
    << [s |-> -1, m |-> 13606065, e |-> -30],
       [s |->  1, m |->  8702836, e |-> -27],
       [s |-> -1, m |-> 10539369, e |-> -26],
       [s |->  1, m |->  8629117, e |-> -25],
       [s |-> -1, m |-> 11871577, e |-> -25],
       [s |->  1, m |-> 16110537, e |-> -25],
       [s |-> -1, m |-> 12101646, e |-> -24],
       [s |->  1, m |-> 12582912, e |-> -23],
       FZero >>

(* log2_poly_s: each decimal literal of the source rounded to binary32 *)
log2_poly_s ==
    << [s |-> -1, m |-> 13606065, e |-> -30],   \* -0.012671635276421
       [s |->  1, m |->  8702836, e |-> -27],   \*  0.064841182402670
       [s |-> -1, m |-> 10539369, e |-> -26],   \* -0.157048836463065
       [s |->  1, m |->  8629117, e |-> -25],   \*  0.257167726303123
       [s |-> -1, m |-> 11871577, e |-> -25],   \* -0.353800560300520
       [s |->  1, m |-> 16110537, e |-> -25],   \*  0.480131410397451
       [s |-> -1, m |-> 12101646, e |-> -24],   \* -0.721314327952201
       [s |->  1, m |-> 12102201, e |-> -23],   \*  1.442694803896991
       FZero >>

RECURSIVE horner_s(_, _, _, _)
horner_s(poly, xf, i, var) ==
    IF i > Len(poly) THEN var
    ELSE horner_s(poly, xf, i + 1, FAdd(FMul(var, xf), poly[i]))

(* log2f_approx((float)i) for an integer 0 < i < 2^24: the exponent field
   gives log_base = floor(log2 i), the mantissa field gives remain in [1, 2) *)
log2f_approx(i) ==
    LET b          == BitLenInt(i) - 1
        remain_m1  == RoundMag(1, FromInt(i - Pow2(b)), -b)
        log_remain == horner_s(log2_poly_s, remain_m1, 1, FZero)
    IN  FAdd(FFromInt(b), log_remain)

(* round() of a positive float below 2^24: nearest integer, halves upward *)
RoundF(f) ==
    IF f.s = 0 THEN 0
    ELSE IF f.e >= 0 THEN f.m * Pow2(f.e)
    ELSE IF -f.e > 25 THEN 0
    ELSE (f.m + Pow2(-f.e - 1)) \div Pow2(-f.e)

LogFirst == 32767

(* log_generate: log_values[i] = (uint16_t)round(log2f_approx((float)i) * 2048)
   for 32767 <= i < 65536; every other entry is never written.            *)
log_values(i) ==
    LET Scaled(l) == RoundF([s |-> l.s, m |-> l.m, e |-> l.e + 11]) % Pow2(16)
    IN  Scaled(log2f_approx(i))

(* ---------------- filter bank ---------------- *)

(* a faulty variant of vif_filter1d_table: the centre tap of every kernel is
   one too large, so that each kernel sums to more than 2^16               *)
vif_filter1d_table_heavy ==
    << << 489, 935, 1640, 2640, 3896, 5274, 6547, 7455, 7785, 7455, 6547, 5274,
          3896, 2640, 1640, 935, 489 >>,
       << 1244, 3663, 7925, 12590, 14693, 12590, 7925, 3663, 1244 >>,
       << 3571, 16004, 26387, 16004, 3571 >>,
       << 10904, 43729, 10904 >> >>

vif_filter1d_table ==
    << << 489, 935, 1640, 2640, 3896, 5274, 6547, 7455, 7784, 7455, 6547, 5274,
          3896, 2640, 1640, 935, 489 >>,
       << 1244, 3663, 7925, 12590, 14692, 12590, 7925, 3663, 1244 >>,
       << 3571, 16004, 26386, 16004, 3571 >>,
       << 10904, 43728, 10904 >> >>

vif_filter1d_width == << 17, 9, 5, 3 >>

(* ii < 0 ? -ii : (ii >= n ? 2 * n - ii - 1 : ii) *)
mirror(ii, n) == IF ii < 0 THEN -ii ELSE IF ii >= n THEN 2 * n - ii - 1 ELSE ii

(* The taps of a kernel and the columns of the samples are split in base
   2^8, so that every partial sum stays a machine integer; the value is the
   exact sum of the C loop  accum += fcoeff * sample.                      *)
RECURSIVE SumTap(_, _, _, _, _)
SumTap(f, lowpart, X, c, k) ==
    IF k > Len(X) THEN 0
    ELSE (IF lowpart THEN f[k] % Radix ELSE f[k] \div Radix) * Digit(X[k], c)
         + SumTap(f, lowpart, X, c, k + 1)

RECURSIVE ConvCols(_, _, _, _)
ConvCols(f, X, c, n) ==
    IF c > n + 1 THEN <<>>
    ELSE <<SumTap(f, TRUE, X, c, 1) + SumTap(f, FALSE, X, c - 1, 1)>>
         \o ConvCols(f, X, c + 1, n)

(* sum over the taps k of f[k] * value(X[k]), X[k] given by n base-2^8 columns *)
Convolve(f, X, n) == Normalize(ConvCols(f, X, 1, n))

(* columns of a 16-bit sample, of the product of two 16-bit samples *)
Cols16(v) == << v % Radix, v \div Radix >>
ColsProd(a, b) ==
    << (a % Radix) * (b % Radix),
       (a % Radix) * (b \div Radix) + (a \div Radix) * (b % Radix),
       (a \div Radix) * (b \div Radix) >>

(* a sequence given by its elements, evaluated once *)
Force(sq) == sq \o <<>>

(* (T)((accum + round) >> shift) for an accumulator of accBytes bytes
   narrowed on store to outBytes bytes.  wrap: accum + round left the
   accumulator's width; narrow: the cast dropped set bits.                *)
RoundShift(accum, round, shift, accBytes, outBytes) ==
    LET Store(sum, shifted) ==
            [v      |-> LowDigits(shifted, outBytes),
             wrap   |-> ~Fits(sum, accBytes),
             narrow |-> ~Fits(shifted, outBytes)]
        InAcc(sum) == Store(sum, Shr(LowDigits(sum, accBytes), shift))
    IN  InAcc(AddD(accum, FromInt(round)))

(* shift and rounding constants of the four filter functions *)
Cfg_combined_8(inp_size_bits) ==
    [shift_HP |-> 16, round_HP |-> 32768,
     round_VP |-> Pow2(inp_size_bits - 1), shift_VP |-> inp_size_bits,
     shift_VP_sq |-> (inp_size_bits - 8) * 2,
     round_VP_sq |-> IF inp_size_bits = 8 THEN 0
                     ELSE Pow2((inp_size_bits - 8) * 2 - 1)]

Cfg_combined_16(scale_arg, inp_size_bits) ==
    IF scale_arg = 0
    THEN [shift_HP |-> 16, round_HP |-> 32768,
          round_VP |-> Pow2(inp_size_bits - 1), shift_VP |-> inp_size_bits,
          shift_VP_sq |-> (inp_size_bits - 8) * 2,
          round_VP_sq |-> IF inp_size_bits = 8 THEN 0
                          ELSE Pow2((inp_size_bits - 8) * 2 - 1)]
    ELSE [shift_HP |-> 16, round_HP |-> 32768,
          round_VP |-> 32768, shift_VP |-> 16,
          shift_VP_sq |-> 16, round_VP_sq |-> 32768]

Cfg_rdCombine_8(inp_size_bits) ==
    [shift_HP |-> 16, round_HP |-> 32768,
     round_VP |-> Pow2(inp_size_bits - 1), shift_VP |-> inp_size_bits]

(* a faulty variant of Cfg_rdCombine_16: the constants of scales 2..3 at
   every scale                                                             *)
Cfg_rdCombine_16_fixed(scale_arg, inp_size_bits) ==
    [shift_HP |-> 16, round_HP |-> 32768,
     round_VP |-> 32768, shift_VP |-> 16]

Cfg_rdCombine_16(scale_arg, inp_size_bits) ==
    IF scale_arg = 0
    THEN [shift_HP |-> 16, round_HP |-> 32768,
          round_VP |-> Pow2(inp_size_bits - 1), shift_VP |-> inp_size_bits]
    ELSE [shift_HP |-> 16, round_HP |-> 32768,
          round_VP |-> 32768, shift_VP |-> 16]

(* ---------------- vif_statistic, one pixel ---------------- *)

sigma_nsq == 131072

TwoTo31 == Shl(<<1>>, 31)
TwoTo32 == Shl(<<1>>, 32)
TwoTo64 == Shl(<<1>>, 64)
MaxInt32 == (Pow2(30) - 1) + Pow2(30)

(* magnitude of a machine integer, also of -2^31 *)
AbsD(n) == IF n >= 0 THEN FromInt(n) ELSE AddD(FromInt(-(n + 1)), <<1>>)

(* (uint32_t)(a - b) and (int32_t) of a uint32_t *)
U32Sub(a, b) == IF CmpD(a, b) >= 0 THEN SubD(a, b) ELSE SubD(AddD(a, TwoTo32), b)
Int32(d) ==
    IF CmpD(d, TwoTo31) < 0 THEN ToInt(d) ELSE -ToInt(SubD(SubD(TwoTo32, <<1>>), d)) - 1

(* a - b as an integer lies in [-2^31, 2^31) *)
DiffFitsInt32(a, b) ==
    IF CmpD(a, b) >= 0 THEN CmpD(SubD(a, b), TwoTo31) < 0
    ELSE CmpD(SubD(b, a), TwoTo31) <= 0

(* (uint32_t)((((uint64_t)a * b) + 2147483648) >> 32) *)
MulRound32(a, b) == LowDigits(Shr(LowDigits(AddD(MulD(a, b), TwoTo31), 8), 32), 4)

(* int32_t a + b for b >= 0, wrapped on overflow *)
AddInt32(a, b) ==
    IF a > MaxInt32 - b THEN ((a - MaxInt32) - 1) + ((b - MaxInt32) - 1) ELSE a + b

(* log_values[i]: entries below 32767 are never written by log_generate *)
LogRead(i) == IF i >= LogFirst /\ i < Pow2(16) THEN log_values(i) ELSE 0

(* The body of the pixel loop of vif_statistic: what one pixel adds to each
   accumulator.  kind names the branch: "low" (sigma1_sq < sigma_nsq), "neg"
   (sigma12 < 0), "log" (denom > 0), "fallback" (denom <= 0).              *)
PixelStat(mu1_val, mu2_val, xx_filt_val, yy_filt_val, xy_filt_val) ==
    LET (* the reads of log_values made by the branch: logidx[1] for
           den_val, logidx[2] and logidx[3] for the numerator               *)
        Read(p, lg) ==
            [p EXCEPT !.num_log = IF p.kind = "log" THEN lg[2] - lg[3] ELSE 0,
                      !.den_log = IF p.kind \in {"log", "neg"} THEN lg[1] ELSE 0]
        Looked(p) ==
            Read(p, [k \in 1..Len(p.logidx) |-> LogRead(p.logidx[k])])
        (* denom > 0 *)
        Logs(p, n1, n64, d64) ==
            [p EXCEPT !.kind = "log", !.x2 = d64.x - n64.x,
                      !.num_non_log = 0, !.den_non_log = 0,
                      !.logidx = << n1.m, n64.m, d64.m >>]
        Ratio(p, n1, n64, numer1, numer1_mag, sigma12_sq) ==
            IF numer1 > 0 /\ CmpD(numer1_mag, sigma12_sq) > 0
            THEN Logs(p, n1, n64,
                      integer_get_best_16bits_opt_64(SubD(numer1_mag, sigma12_sq)))
            ELSE [p EXCEPT !.kind = "fallback", !.clz0 = n64.ub,
                           !.logidx = << n1.m >>]
        Numer(p, n1, numer1, numer1_mag) ==
            Ratio(p, n1,
                  integer_get_best_16bits_opt_64(
                      IF numer1 < 0 THEN SubD(TwoTo64, numer1_mag) ELSE numer1_mag),
                  numer1, numer1_mag,
                  MulD(FromInt(p.sigma12), FromInt(p.sigma12)))
        Positive(p, n1, numer1) ==
            Numer([p EXCEPT !.fits = @ /\ p.sigma2_sq <= MaxInt32 - sigma_nsq],
                  n1, numer1, MulD(AbsD(numer1), FromInt(p.sigma1_sq)))
        Signal(p, n1) ==
            IF p.sigma12 >= 0
            THEN Positive(p, n1, AddInt32(p.sigma2_sq, sigma_nsq))
            ELSE [p EXCEPT !.kind = "neg", !.num_non_log = 0, !.den_non_log = 0,
                           !.logidx = << n1.m >>]
        Stage1(p, n1) == Signal([p EXCEPT !.nx = 1, !.x = n1.x], n1)
        High(p, mu1_mu2_val) ==
            Stage1([p EXCEPT !.sigma12 = Int32(U32Sub(xy_filt_val, mu1_mu2_val)),
                             !.fits = @ /\ DiffFitsInt32(xy_filt_val, mu1_mu2_val)
                                        /\ p.sigma1_sq <= MaxInt32 - sigma_nsq],
                   integer_get_best_16bits_opt_greater(
                       AddD(FromInt(sigma_nsq), FromInt(p.sigma1_sq))))
        Low(sigma1_sq, sigma2_sq, fit12) ==
            [kind |-> "low", sigma1_sq |-> sigma1_sq, sigma2_sq |-> sigma2_sq,
             sigma12 |-> 0, nx |-> 0, x |-> 0, x2 |-> 0,
             num_log |-> 0, den_log |-> 0,
             num_non_log |-> sigma2_sq, den_non_log |-> 1,
             fits |-> fit12, clz0 |-> FALSE, logidx |-> << >>]
        Branch(p) ==
            IF p.sigma1_sq >= sigma_nsq
            THEN High(p, MulRound32(mu1_val, mu2_val))
            ELSE p
        Sigma(mu1_sq_val, mu2_sq_val) ==
            Looked(Branch(Low(Int32(U32Sub(xx_filt_val, mu1_sq_val)),
                              Int32(U32Sub(yy_filt_val, mu2_sq_val)),
                              DiffFitsInt32(xx_filt_val, mu1_sq_val)
                              /\ DiffFitsInt32(yy_filt_val, mu2_sq_val))))
    IN  Sigma(MulRound32(mu1_val, mu1_val), MulRound32(mu2_val, mu2_val))

(* ---------------- signed multi-precision integers ---------------- *)

SInt(n) == [neg |-> n < 0, mag |-> AbsD(n)]

SAdd(a, b) ==
    IF a.neg = b.neg THEN [neg |-> a.neg /\ ~IsZero(AddD(a.mag, b.mag)),
                           mag |-> AddD(a.mag, b.mag)]
    ELSE IF CmpD(a.mag, b.mag) > 0 THEN [neg |-> a.neg, mag |-> SubD(a.mag, b.mag)]
    ELSE IF CmpD(a.mag, b.mag) < 0 THEN [neg |-> b.neg, mag |-> SubD(b.mag, a.mag)]
    ELSE [neg |-> FALSE, mag |-> <<>>]

SNeg(a) == [neg |-> ~a.neg /\ ~IsZero(a.mag), mag |-> a.mag]

SMulD(a, d) ==
    [neg |-> a.neg /\ ~IsZero(d) /\ ~IsZero(a.mag), mag |-> MulD(a.mag, d)]

SSign(a) == IF IsZero(a.mag) THEN 0 ELSE IF a.neg THEN -1 ELSE 1

(* ---------------- the two results of vif_statistic ---------------- *)

AccZero ==
    [x |-> 0, x2 |-> 0, nx |-> 0, num_log |-> 0, den_log |-> 0,
     num_non_log |-> SInt(0), den_non_log |-> 0]

(* a faulty variant of AccAdd: accum_den_non_log is left as it was *)
AccAdd_den_kept(a, p) ==
    [x |-> a.x + p.x, x2 |-> a.x2 + p.x2, nx |-> a.nx + p.nx,
     num_log |-> a.num_log + p.num_log, den_log |-> a.den_log + p.den_log,
     num_non_log |-> SAdd(a.num_non_log, SInt(p.num_non_log)),
     den_non_log |-> a.den_non_log]

AccAdd(a, p) ==
    [x |-> a.x + p.x, x2 |-> a.x2 + p.x2, nx |-> a.nx + p.nx,
     num_log |-> a.num_log + p.num_log, den_log |-> a.den_log + p.den_log,
     num_non_log |-> SAdd(a.num_non_log, SInt(p.num_non_log)),
     den_non_log |-> a.den_non_log + p.den_non_log]

(* num[0] = accum_num_log / 2048.0 + accum_x2
            + (accum_den_non_log - (accum_num_non_log / 16384.0) / 65025.0)
   The double expression is taken as the exact rational
       (520200 * accum_num_log
        + 16384 * 65025 * (accum_x2 + accum_den_non_log)
        - accum_num_non_log) / (16384 * 65025)
   and the store to float rounds it once to binary32: the quotient by 65025
   is taken with 40 extra binary places and a sticky last place.           *)
StatNum(a) ==
    LET Quot(numK, up) ==
            RoundMag(SSign(numK),
                     AddD(Shl(DivInt(up, 65025), 1),
                          IF RemInt(up, 65025) = 0 THEN <<>> ELSE <<1>>),
                     -55)
        Scaled(numK) == Quot(numK, Shl(numK.mag, 40))
    IN  Scaled(SAdd(SAdd(SMulD(SInt(a.num_log), FromInt(8 * 65025)),
                         SMulD(SInt(a.x2 + a.den_non_log),
                               MulD(FromInt(16384), FromInt(65025)))),
                    SNeg(a.num_non_log)))

(* a faulty variant of StatDen: the exponents accum_x + num_accum_x * 17 are
   not taken off                                                           *)
StatDen_unshifted(a) ==
    LET d2048 == a.den_log + 2048 * a.den_non_log
    IN  RoundMag(IF d2048 < 0 THEN -1 ELSE IF d2048 > 0 THEN 1 ELSE 0, AbsD(d2048), -11)

(* den[0] = accum_den_log / 2048.0 - (accum_x + num_accum_x * 17)
            + accum_den_non_log:  a multiple of 1/2048                      *)
StatDen(a) ==
    LET d2048 == a.den_log - 2048 * (a.x + a.nx * 17) + 2048 * a.den_non_log
    IN  RoundMag(IF d2048 < 0 THEN -1 ELSE IF d2048 > 0 THEN 1 ELSE 0, AbsD(d2048), -11)

(* ---------------- state ---------------- *)

VARIABLES
    ref_pic,       \* VmafPicture of the reference: [bpc, w, h, stride, data]
    dist_pic,      \* VmafPicture of the distorted frame
    index,         \* frame index given to extract
    s,             \* VifState: strides and the arena views
    pc,            \* position in extract
    scale,         \* loop variable of extract
    buf_valid_w,
    buf_valid_h,
    curr,          \* integer_curr_{ref,dis}_scale and curr_{ref,dis}_stride
    i,             \* row loop variable of the running filter or statistic
    phase,         \* "V" or "H": pass of the running filter on row i
    acc,           \* accumulators of vif_statistic
    scores,        \* double scores[8]
    err,           \* int err of extract
    nappend,       \* appends made so far by extract
    sink,          \* the feature collector: what was appended, in order
    ret,           \* value returned by extract
    garbage,       \* what a read outside every written object yields
    events,        \* undefined or lossy operations met so far
    sched,         \* filter calls made so far, with their constants
    branch,        \* per scale: how many pixels took each branch
    unit,          \* argument of the function under test
    unit_res,      \* its result
    life,          \* the instance: s->buf, what init returned, the closes made
    heap           \* the allocator: every acquisition and release, in order

vars == << ref_pic, dist_pic, index, s, pc, scale, buf_valid_w, buf_valid_h, curr,
           i, phase, acc, scores, err, nappend, sink, ret, garbage, events, sched,
           branch, unit, unit_res, life, heap >>

(* ---------------- frames ---------------- *)

FrameW == 16
FrameH == 16

(* sample (row, col) of a test pattern, mx the largest sample value *)
Sample(p, row, col, mx) ==
    CASE p.kind = "const"   -> p.a
      [] p.kind = "checker" -> IF ((row \div p.t) + (col \div p.t)) % 2 = 0 THEN p.a ELSE p.b
      [] p.kind = "stripes" -> IF (col \div p.t) % 2 = 0 THEN p.a ELSE p.b
      [] p.kind = "spike"   -> IF row = p.t /\ col = p.t THEN p.b ELSE p.a
      [] p.kind = "ramp"    -> (p.a * row + p.b * col) % (mx + 1)

Pat(kind, a, b, t) == [kind |-> kind, a |-> a, b |-> b, t |-> t]

(* bytes per sample of a picture *)
SampleBytes(bpc) == IF bpc = 8 THEN 1 ELSE 2

(* the mark of an element no store has reached yet *)
Uninit == 0 - 1
Uninit32 == << Uninit >>

(* A picture without row padding: stride[0] = w * bytes per sample; data
   holds plane 0 by sample offset.                                        *)
Picture(bpc, w, h, p) ==
    [bpc |-> bpc, w |-> w, h |-> h, stride |-> w * SampleBytes(bpc),
     data |-> [off \in 0..(w * h - 1) |->
                  Sample(p, off \div w, off % w, Pow2(bpc) - 1)]]

(* A picture whose rows are pad samples longer than w: stride[0] =
   (w + pad) * bytes per sample.  The samples of the padding are unwritten. *)
PaddedPicture(bpc, w, h, p, pad) ==
    [bpc |-> bpc, w |-> w, h |-> h, stride |-> (w + pad) * SampleBytes(bpc),
     data |-> [off \in 0..((w + pad) * h - 1) |->
                  IF off % (w + pad) < w
                  THEN Sample(p, off \div (w + pad), off % (w + pad), Pow2(bpc) - 1)
                  ELSE Uninit]]

(* the frame pairs; dis_pad is the row padding of the distorted picture *)
Frames ==
    << [bpc |-> 8,  w |-> FrameW, h |-> FrameH,
        ref |-> Pat("const", 128, 0, 1), dis |-> Pat("const", 128, 0, 1),
        dis_pad |-> 0],
       [bpc |-> 10, w |-> FrameW, h |-> FrameH,
        ref |-> Pat("const", 512, 0, 1), dis |-> Pat("const", 512, 0, 1),
        dis_pad |-> 0],
       [bpc |-> 16, w |-> FrameW, h |-> FrameH,
        ref |-> Pat("const", 65535, 0, 1), dis |-> Pat("const", 65535, 0, 1),
        dis_pad |-> 0],
       [bpc |-> 8,  w |-> FrameW, h |-> FrameH,
        ref |-> Pat("stripes", 100, 110, 1), dis |-> Pat("stripes", 100, 110, 1),
        dis_pad |-> 0],
       [bpc |-> 8,  w |-> FrameW, h |-> FrameH,
        ref |-> Pat("checker", 63, 127, 4), dis |-> Pat("checker", 0, 255, 4),
        dis_pad |-> 0],
       [bpc |-> 16, w |-> FrameW, h |-> FrameH,
        ref |-> Pat("checker", 0, 65535, 1), dis |-> Pat("checker", 65535, 0, 2),
        dis_pad |-> 0],
       [bpc |-> 8,  w |-> 1, h |-> 1,
        ref |-> Pat("const", 128, 0, 1), dis |-> Pat("const", 128, 0, 1),
        dis_pad |-> 0],
       [bpc |-> 8,  w |-> FrameW, h |-> FrameH,
        ref |-> Pat("ramp", 7, 3, 1), dis |-> Pat("ramp", 7, 3, 1),
        dis_pad |-> FrameW] >>

(* ---------------- init (the arena) ---------------- *)

MAX_ALIGN == 32
ALIGN_CEIL(n) == n + (IF (n % MAX_ALIGN) # 0 THEN MAX_ALIGN - (n % MAX_ALIGN) ELSE 0)


(* the views in the order init takes them off data_top *)
ViewOrder ==
    << "integer_ref_scale", "integer_dis_scale", "integer_mu1", "integer_mu2",
       "integer_mu1_32", "integer_mu2_32", "integer_ref_sq_filt", "integer_dis_sq_filt",
       "integer_ref_dis_filt", "tmp_ref_convol", "tmp_dis_convol", "tmp_mu1", "tmp_mu2",
       "tmp_ref", "tmp_dis", "tmp_ref_dis" >>

(* a faulty variant of view_size: the 16-bit views take a quarter frame *)
view_size_quarter(k, buf_stride, buf_frame_size) ==
    IF k <= 4 THEN buf_frame_size \div 4
    ELSE IF k <= 9 THEN buf_frame_size ELSE buf_stride

(* what data_top advances by past view k: buf_frame_size / 2, buf_frame_size
   or buf_stride bytes                                                     *)
view_size(k, buf_stride, buf_frame_size) ==
    IF k <= 4 THEN buf_frame_size \div 2
    ELSE IF k <= 9 THEN buf_frame_size ELSE buf_stride

(* data_top, as a byte offset into s->buf, when view k is assigned *)
RECURSIVE data_top(_, _, _)
data_top(k, buf_stride, buf_frame_size) ==
    IF k = 1 THEN 0
    ELSE data_top(k - 1, buf_stride, buf_frame_size)
         + view_size(k - 1, buf_stride, buf_frame_size)

(* size of the allocation, and where each view begins and how far the
   bytes set apart for it reach                                          *)
Arena(buf_stride, buf_frame_size) ==
    [buf_size |-> buf_frame_size * 7 + buf_stride * 7,
     base |-> [k \in 1..Len(ViewOrder) |-> data_top(k, buf_stride, buf_frame_size)],
     size |-> [k \in 1..Len(ViewOrder) |-> view_size(k, buf_stride, buf_frame_size)]]

(* init: buf_stride = ALIGN_CEIL(w * sizeof(uint32_t)), buf_frame_size =
   buf_stride * h; the views are listed in the order init lays them out.
   A view is held by element offset: the 16-bit half-frame views and the
   32-bit full-frame views all have (buf_stride / 4) * h elements, a row
   tile buf_stride / 4.  Every element starts unwritten; a 32-bit element
   is held as its base-2^8 digits.                                         *)
InitState(w, h) ==
    LET buf_stride == ALIGN_CEIL(w * 4)
        frame16    == [off \in 0..((buf_stride \div 4) * h - 1) |-> Uninit]
        frame      == [off \in 0..((buf_stride \div 4) * h - 1) |-> Uninit32]
        tile       == [off \in 0..((buf_stride \div 4) - 1) |-> Uninit32]
    IN  [buf_stride |-> buf_stride, buf_frame_size |-> buf_stride * h,
         arena |-> Arena(buf_stride, buf_stride * h),
         integer_ref_scale |-> frame16, integer_dis_scale |-> frame16,
         integer_mu1 |-> frame16, integer_mu2 |-> frame16,
         integer_mu1_32 |-> frame, integer_mu2_32 |-> frame,
         integer_ref_sq_filt |-> frame, integer_dis_sq_filt |-> frame,
         integer_ref_dis_filt |-> frame,
         tmp_ref_convol |-> tile, tmp_dis_convol |-> tile,
         tmp_mu1 |-> tile, tmp_mu2 |-> tile,
         tmp_ref |-> tile, tmp_dis |-> tile, tmp_ref_dis |-> tile]

(* The views before init has assigned them: the instance holds none. *)
NoView == << >>
FreshState ==
    [buf_stride |-> 0, buf_frame_size |-> 0,
     arena |-> [buf_size |-> 0, base |-> << >>, size |-> << >>],
     integer_ref_scale |-> NoView, integer_dis_scale |-> NoView,
     integer_mu1 |-> NoView, integer_mu2 |-> NoView,
     integer_mu1_32 |-> NoView, integer_mu2_32 |-> NoView,
     integer_ref_sq_filt |-> NoView, integer_dis_sq_filt |-> NoView,
     integer_ref_dis_filt |-> NoView,
     tmp_ref_convol |-> NoView, tmp_dis_convol |-> NoView,
     tmp_mu1 |-> NoView, tmp_mu2 |-> NoView,
     tmp_ref |-> NoView, tmp_dis |-> NoView, tmp_ref_dis |-> NoView]

(* aligned_malloc returns the arena or NULL; aligned_free(NULL) releases
   nothing, aligned_free of a block releases it.                          *)
aligned_malloc == {"arena", "NULL"}
aligned_free(p, by) ==
    IF p = "NULL" THEN << >> ELSE << [op |-> "release", blk |-> p, by |-> by] >>

ENOMEM == 12

(* a faulty variant of init_return: success is reported either way *)
init_return_zero(p) == 0

(* if (!s->buf) goto free_buf; ... return 0;  free_buf: ... return -ENOMEM *)
init_return(p) == IF p = "NULL" THEN -ENOMEM ELSE 0

(* the instance after a successful init, as extract finds it *)
Ready == [pc |-> "ready", buf |-> "arena", init_ret |-> 0, closes |-> << >>]
Acquired == << [op |-> "acquire", blk |-> "arena", by |-> "init"] >>

(* ---------------- memory reads ---------------- *)

Written(buf, off) == off \in DOMAIN buf /\ buf[off] # Uninit
Written32(buf, off) == off \in DOMAIN buf /\ buf[off] # Uninit32

(* a 16-bit (or 8-bit) element; a 32-bit element *)
Rd16(buf, off) == IF Written(buf, off) THEN buf[off] ELSE garbage
Rd32(buf, off) == IF Written32(buf, off) THEN buf[off] ELSE FromInt(garbage)

CurrRef == IF curr.in_arena THEN s.integer_ref_scale ELSE ref_pic.data
CurrDis == IF curr.in_arena THEN s.integer_dis_scale ELSE dist_pic.data

(* the loop of extract takes the kernel of its own scale for both filters *)
integer_filter == vif_filter1d_table[scale + 1]
filter_width   == vif_filter1d_width[scale + 1]

(* row index met by tap fi of output row i; column index met by tap fj *)
TapRow(fi) == mirror(i - filter_width \div 2 + fi, buf_valid_h)
TapCol(j, fj) == mirror(j - filter_width \div 2 + fj, buf_valid_w)

(* which statistic filter extract calls at this scale, with its constants *)
FltCfg ==
    IF ref_pic.bpc = 8 /\ scale = 0 THEN Cfg_combined_8(ref_pic.bpc)
    ELSE Cfg_combined_16(scale, ref_pic.bpc)

FltFn == IF ref_pic.bpc = 8 /\ scale = 0 THEN "combined_8" ELSE "combined_16"

(* the record extract's call leaves in the schedule *)
Call(fn, cfg) == [fn |-> fn, scale |-> scale, kernel |-> integer_filter, cfg |-> cfg]

(* ---------------- vif_filter1d_rdCombine_8 / _16 ---------------- *)

RdCfg ==
    IF ref_pic.bpc = 8 /\ scale = 1 THEN Cfg_rdCombine_8(ref_pic.bpc)
    ELSE Cfg_rdCombine_16(scale - 1, ref_pic.bpc)

RdFn == IF ref_pic.bpc = 8 /\ scale = 1 THEN "rdCombine_8" ELSE "rdCombine_16"

(* vertical pass at column j of row i: tmp[j] = (uint16_t)((accum + round) >> shift) *)
RdVPix(src, src_px_stride, j) ==
    RoundShift(Convolve(integer_filter,
                        Force([fi \in 1..filter_width |->
                                 Cols16(Rd16(src, TapRow(fi - 1) * src_px_stride + j))]),
                        2),
               RdCfg.round_VP, RdCfg.shift_VP, 4, 2)

(* horizontal pass at column j: (uint16_t)((accum + 32768) >> 16) *)
RdHPix(tmp, j) ==
    RoundShift(Convolve(integer_filter,
                        Force([fj \in 1..filter_width |->
                                 LowDigits(Rd32(tmp, TapCol(j, fj - 1)), 2)]),
                        2),
               RdCfg.round_HP, RdCfg.shift_HP, 4, 2)

LossEvents(row, what) ==
    (IF \E k \in 1..Len(row) : row[k].wrap THEN {"wrap_" \o what} ELSE {})
    \cup (IF \E k \in 1..Len(row) : row[k].narrow THEN {"narrow_" \o what} ELSE {})

VReadEvents(src, px1, dsrc, px2) ==
    IF \E j \in 0..(buf_valid_w - 1), fi \in 0..(filter_width - 1) :
          \/ ~Written(src, TapRow(fi) * px1 + j)
          \/ ~Written(dsrc, TapRow(fi) * px2 + j)
    THEN {"unwritten_read"} ELSE {}

HReadEvents(tmp) ==
    IF \E j \in 0..(buf_valid_w - 1), fj \in 0..(filter_width - 1) :
          ~Written32(tmp, TapCol(j, fj))
    THEN {"unwritten_read"} ELSE {}

(* a tile with columns 0..w-1 replaced by the row r (1-based) *)
PutTile(tile, r) ==
    [off \in DOMAIN tile |-> IF off < Len(r) THEN r[off + 1].v ELSE tile[off]]

(* a 16-bit plane, a 32-bit plane, with row i replaced by the row r *)
PutRow16(plane, px, r) ==
    [off \in DOMAIN plane |->
        IF off >= i * px /\ off < i * px + Len(r) THEN ToInt(r[off - i * px + 1].v)
        ELSE plane[off]]
PutRow32(plane, px, r) ==
    [off \in DOMAIN plane |->
        IF off >= i * px /\ off < i * px + Len(r) THEN r[off - i * px + 1].v
        ELSE plane[off]]

(* the n elements of elem bytes written through view v from element first
   on: outside the bytes init set apart for v or not                      *)
WriteEvents(v, elem, first, n) ==
    IF n > 0 /\ \E k \in 1..Len(ViewOrder) :
                   ViewOrder[k] = v /\ elem * (first + n) > s.arena.size[k]
    THEN {"write_outside_view"} ELSE {}

Unchanged_io ==
    UNCHANGED << ref_pic, dist_pic, index, garbage, unit, unit_res, life, heap >>

RdVertical ==
    /\ pc = "rd" /\ phase = "V" /\ i < buf_valid_h
    /\ LET Store(px1, px2, rr, rd) ==
               /\ s' = [s EXCEPT !.tmp_ref_convol = PutTile(@, rr),
                                 !.tmp_dis_convol = PutTile(@, rd)]
               /\ events' = events \cup LossEvents(rr, "mu") \cup LossEvents(rd, "mu")
                                   \cup VReadEvents(CurrRef, px1, CurrDis, px2)
                                   \cup WriteEvents("tmp_ref_convol", 4, 0, Len(rr))
                                   \cup WriteEvents("tmp_dis_convol", 4, 0, Len(rd))
           Row(src, px) == Force([j \in 1..buf_valid_w |-> RdVPix(src, px, j - 1)])
           Rows(px1, px2) == Store(px1, px2, Row(CurrRef, px1), Row(CurrDis, px2))
       IN  Rows(curr.ref_stride \div 4, curr.dis_stride \div 4)
    /\ phase' = "H"
    /\ UNCHANGED << pc, scale, buf_valid_w, buf_valid_h, curr, i, acc, scores, err,
                    nappend, sink, ret, sched, branch >>
    /\ Unchanged_io

RdHorizontal ==
    /\ pc = "rd" /\ phase = "H"
    /\ LET Store(dst_px, rr, rd) ==
               /\ s' = [s EXCEPT !.integer_mu1 = PutRow16(@, dst_px, rr),
                                 !.integer_mu2 = PutRow16(@, dst_px, rd)]
               /\ events' = events \cup LossEvents(rr, "mu") \cup LossEvents(rd, "mu")
                                   \cup HReadEvents(s.tmp_ref_convol)
                                   \cup WriteEvents("integer_mu1", 2, i * dst_px, Len(rr))
                                   \cup WriteEvents("integer_mu2", 2, i * dst_px, Len(rd))
           Row(tmp) == Force([j \in 1..buf_valid_w |-> RdHPix(tmp, j - 1)])
       IN  Store(s.buf_stride \div 4, Row(s.tmp_ref_convol), Row(s.tmp_dis_convol))
    /\ phase' = "V"
    /\ i' = i + 1
    /\ UNCHANGED << pc, scale, buf_valid_w, buf_valid_h, curr, acc, scores, err,
                    nappend, sink, ret, sched, branch >>
    /\ Unchanged_io

(* a faulty variant of vif_dec2: the odd sample of each pair is kept *)
vif_dec2_odd(src, dst, src_w, src_h, src_stride, dst_stride) ==
    LET src_px_stride == src_stride \div 4
    IN  [off \in DOMAIN dst |->
            IF off \div src_px_stride < src_h \div 2 /\ off % src_px_stride < src_w \div 2
            THEN Rd16(src, (off \div src_px_stride) * (src_px_stride * 2)
                           + (off % src_px_stride) * 2 + 1)
            ELSE dst[off]]

(* vif_dec2: b[j] = a[j * 2]; b += src_px_stride; a += src_px_stride * 2 *)
vif_dec2(src, dst, src_w, src_h, src_stride, dst_stride) ==
    LET src_px_stride == src_stride \div 4
    IN  [off \in DOMAIN dst |->
            IF off \div src_px_stride < src_h \div 2 /\ off % src_px_stride < src_w \div 2
            THEN Rd16(src, (off \div src_px_stride) * (src_px_stride * 2)
                           + (off % src_px_stride) * 2)
            ELSE dst[off]]

(* after the reduce filter: both decimations, then the loop's bookkeeping *)
RdDecimate ==
    /\ pc = "rd" /\ phase = "V" /\ i >= buf_valid_h
    /\ s' = [s EXCEPT
               !.integer_ref_scale = vif_dec2(s.integer_mu1, @, buf_valid_w, buf_valid_h,
                                              s.buf_stride, s.buf_stride),
               !.integer_dis_scale = vif_dec2(s.integer_mu2, @, buf_valid_w, buf_valid_h,
                                              s.buf_stride, s.buf_stride)]
    /\ buf_valid_w' = buf_valid_w \div 2
    /\ buf_valid_h' = buf_valid_h \div 2
    /\ curr' = [in_arena |-> TRUE, ref_stride |-> s.buf_stride, dis_stride |-> s.buf_stride]
    /\ pc' = "flt" /\ i' = 0
    /\ sched' = Append(sched, Call(FltFn, FltCfg))
    /\ events' = events
                 \cup UNION {WriteEvents(v, 2, r * (s.buf_stride \div 4), buf_valid_w \div 2) :
                                v \in {"integer_ref_scale", "integer_dis_scale"},
                                r \in 0..(buf_valid_h \div 2 - 1)}
    /\ UNCHANGED << scale, phase, acc, scores, err, nappend, sink, ret, branch >>
    /\ Unchanged_io

(* ---------------- vif_filter1d_combined_8 / _16 ---------------- *)

(* vertical pass at column j of row i: the five tmp values *)
FltVPix(j) ==
    LET Column(src, px) ==
            Force([fi \in 1..filter_width |-> Rd16(src, TapRow(fi - 1) * px + j)])
        mu(c, X) ==
            RoundShift(Convolve(integer_filter,
                                Force([k \in 1..filter_width |-> Cols16(X[k])]), 2),
                       c.round_VP, c.shift_VP, 4, 2)
        sq(c, X, Y) ==
            RoundShift(Convolve(integer_filter,
                                Force([k \in 1..filter_width |-> ColsProd(X[k], Y[k])]),
                                3),
                       c.round_VP_sq, c.shift_VP_sq, 8, 4)
        Out(c, a, b) ==
            [mu1 |-> mu(c, a), mu2 |-> mu(c, b), ref |-> sq(c, a, a),
             dis |-> sq(c, b, b), ref_dis |-> sq(c, a, b)]
    IN  Out(FltCfg, Column(CurrRef, curr.ref_stride \div 4),
                    Column(CurrDis, curr.dis_stride \div 4))

(* horizontal pass at column j: the five destination values *)
FltHPix(j) ==
    LET taps(tmp, n) == Force([fj \in 1..filter_width |->
                                 LowDigits(Rd32(tmp, TapCol(j, fj - 1)), n)])
        mu(tmp) == RoundShift(Convolve(integer_filter, taps(tmp, 2), 2), 0, 0, 4, 4)
        sq(c, tmp) == RoundShift(Convolve(integer_filter, taps(tmp, 4), 4),
                                 c.round_HP, c.shift_HP, 8, 4)
        Out(c) ==
            [mu1 |-> mu(s.tmp_mu1), mu2 |-> mu(s.tmp_mu2), ref |-> sq(c, s.tmp_ref),
             dis |-> sq(c, s.tmp_dis), ref_dis |-> sq(c, s.tmp_ref_dis)]
    IN  Out(FltCfg)

Field(r, f) == [k \in 1..Len(r) |-> r[k][f]]

FltEvents(r) ==
    LossEvents(Field(r, "mu1"), "mu") \cup LossEvents(Field(r, "mu2"), "mu")
    \cup LossEvents(Field(r, "ref"), "sq") \cup LossEvents(Field(r, "dis"), "sq")
    \cup LossEvents(Field(r, "ref_dis"), "sq")

FltVertical ==
    /\ pc = "flt" /\ phase = "V" /\ i < buf_valid_h
    /\ LET Store(r) ==
               /\ s' = [s EXCEPT !.tmp_mu1 = PutTile(@, Field(r, "mu1")),
                                 !.tmp_mu2 = PutTile(@, Field(r, "mu2")),
                                 !.tmp_ref = PutTile(@, Field(r, "ref")),
                                 !.tmp_dis = PutTile(@, Field(r, "dis")),
                                 !.tmp_ref_dis = PutTile(@, Field(r, "ref_dis"))]
               /\ events' = events \cup FltEvents(r)
                                   \cup VReadEvents(CurrRef, curr.ref_stride \div 4,
                                                    CurrDis, curr.dis_stride \div 4)
                                   \cup UNION {WriteEvents(v, 4, 0, Len(r)) :
                                                  v \in {"tmp_mu1", "tmp_mu2", "tmp_ref",
                                                         "tmp_dis", "tmp_ref_dis"}}
       IN  Store(Force([j \in 1..buf_valid_w |-> FltVPix(j - 1)]))
    /\ phase' = "H"
    /\ UNCHANGED << pc, scale, buf_valid_w, buf_valid_h, curr, i, acc, scores, err,
                    nappend, sink, ret, sched, branch >>
    /\ Unchanged_io

FltHorizontal ==
    /\ pc = "flt" /\ phase = "H"
    /\ LET Store(dst_px, r) ==
               /\ s' = [s EXCEPT
                          !.integer_mu1_32 = PutRow32(@, dst_px, Field(r, "mu1")),
                          !.integer_mu2_32 = PutRow32(@, dst_px, Field(r, "mu2")),
                          !.integer_ref_sq_filt = PutRow32(@, dst_px, Field(r, "ref")),
                          !.integer_dis_sq_filt = PutRow32(@, dst_px, Field(r, "dis")),
                          !.integer_ref_dis_filt =
                              PutRow32(@, dst_px, Field(r, "ref_dis"))]
               /\ events' = events \cup FltEvents(r) \cup HReadEvents(s.tmp_mu1)
                                   \cup UNION {WriteEvents(v, 4, i * dst_px, Len(r)) :
                                                  v \in {"integer_mu1_32", "integer_mu2_32",
                                                         "integer_ref_sq_filt",
                                                         "integer_dis_sq_filt",
                                                         "integer_ref_dis_filt"}}
       IN  Store(s.buf_stride \div 4, Force([j \in 1..buf_valid_w |-> FltHPix(j - 1)]))
    /\ phase' = "V"
    /\ i' = i + 1
    /\ UNCHANGED << pc, scale, buf_valid_w, buf_valid_h, curr, acc, scores, err,
                    nappend, sink, ret, sched, branch >>
    /\ Unchanged_io

(* the filter has returned: vif_statistic starts with its accumulators at 0 *)
FltReturn ==
    /\ pc = "flt" /\ phase = "V" /\ i >= buf_valid_h
    /\ pc' = "stat" /\ i' = 0 /\ acc' = AccZero
    /\ UNCHANGED << s, scale, buf_valid_w, buf_valid_h, curr, phase, scores, err,
                    nappend, sink, ret, events, sched, branch >>
    /\ Unchanged_io

(* ---------------- vif_statistic ---------------- *)

StatPix(j) ==
    LET off == i * (s.buf_stride \div 4) + j
    IN  PixelStat(Rd32(s.integer_mu1_32, off), Rd32(s.integer_mu2_32, off),
                  Rd32(s.integer_ref_sq_filt, off), Rd32(s.integer_dis_sq_filt, off),
                  Rd32(s.integer_ref_dis_filt, off))

RECURSIVE AccRow(_, _, _)
AccRow(a, r, k) == IF k > Len(r) THEN a ELSE AccRow(AccAdd(a, r[k]), r, k + 1)

CountKind(r, kind) == Cardinality({k \in 1..Len(r) : r[k].kind = kind})

BranchZero == [low |-> 0, log |-> 0, neg |-> 0, fallback |-> 0, nonzero |-> 0]

BranchAdd(b, r) ==
    [low      |-> b.low + CountKind(r, "low"),
     log      |-> b.log + CountKind(r, "log"),
     neg      |-> b.neg + CountKind(r, "neg"),
     fallback |-> b.fallback + CountKind(r, "fallback"),
     nonzero  |-> b.nonzero
                  + Cardinality({k \in 1..Len(r) :
                                    r[k].sigma1_sq # 0 \/ r[k].sigma2_sq # 0})]

StatEvents(r) ==
    (IF \E k \in 1..Len(r) : ~r[k].fits THEN {"sigma_int32"} ELSE {})
    \cup (IF \E k \in 1..Len(r) : r[k].clz0 THEN {"clz_zero"} ELSE {})
    \cup (IF \E k \in 1..Len(r) : \E m \in 1..Len(r[k].logidx) :
                                        r[k].logidx[m] < LogFirst
          THEN {"log_unwritten"} ELSE {})
    \cup (IF \E j \in 0..(buf_valid_w - 1) :
               ~Written32(s.integer_mu1_32, i * (s.buf_stride \div 4) + j)
          THEN {"unwritten_read"} ELSE {})

(* the pixels of row i *)
StatRow ==
    /\ pc = "stat" /\ i < buf_valid_h
    /\ LET Add(r) ==
               /\ acc' = AccRow(acc, r, 1)
               /\ branch' = [branch EXCEPT ![scale + 1] = BranchAdd(@, r)]
               /\ events' = events \cup StatEvents(r)
       IN  Add(Force([j \in 1..buf_valid_w |-> StatPix(j - 1)]))
    /\ i' = i + 1
    /\ UNCHANGED << s, pc, scale, buf_valid_w, buf_valid_h, curr, phase, scores, err,
                    nappend, sink, ret, sched >>
    /\ Unchanged_io

(* num[0], den[0] and, in extract, their stores into scores; ++scale *)
StatReturn ==
    /\ pc = "stat" /\ i >= buf_valid_h
    /\ scores' = [scores EXCEPT ![2 * scale + 1] = StatNum(acc),
                                ![2 * scale + 2] = StatDen(acc)]
    /\ scale' = scale + 1
    /\ pc' = "scale"
    /\ UNCHANGED << s, buf_valid_w, buf_valid_h, curr, i, phase, acc, err, nappend,
                    sink, ret, events, sched, branch >>
    /\ Unchanged_io

(* ---------------- extract ---------------- *)

Unset == [s |-> 0, m |-> 0, e |-> Uninit]

(* integer_stride and the locals of extract before its loop *)
integer_stride(pic) == IF pic.bpc = 8 THEN pic.stride * 4 ELSE pic.stride * 2

(* top of the loop body: for scale > 0 the reduce filter is called, for
   scale 0 the statistic filter                                          *)
ScaleBegin ==
    /\ pc = "scale" /\ scale < 4
    /\ pc' = IF scale > 0 THEN "rd" ELSE "flt"
    /\ i' = 0 /\ phase' = "V"
    /\ sched' = Append(sched, IF scale > 0 THEN Call(RdFn, RdCfg) ELSE Call(FltFn, FltCfg))
    /\ UNCHANGED << s, scale, buf_valid_w, buf_valid_h, curr, acc, scores, err, nappend,
                    sink, ret, events, branch >>
    /\ Unchanged_io

(* the loop has ended; err = 0 *)
ScaleEnd ==
    /\ pc = "scale" /\ scale >= 4
    /\ pc' = "append" /\ err' = 0
    /\ UNCHANGED << s, scale, buf_valid_w, buf_valid_h, curr, i, phase, acc, scores,
                    nappend, sink, ret, events, sched, branch >>
    /\ Unchanged_io

(* a faulty variant of BitOr: the later status replaces the earlier *)
KeepLast(a, b) == b

(* bit b of a 32-bit two's complement int, and a | b *)
Bit(n, b) == (n \div Pow2(b)) % 2

RECURSIVE OrFrom(_, _, _)
OrFrom(a, b, k) ==
    IF k > 30 THEN 0
    ELSE (IF Bit(a, k) = 1 \/ Bit(b, k) = 1 THEN Pow2(k) ELSE 0) + OrFrom(a, b, k + 1)

BitOr(a, b) ==
    IF a < 0 \/ b < 0 THEN (OrFrom(a, b, 0) - MaxInt32) - 1 ELSE OrFrom(a, b, 0)

(* a faulty variant of feature_name: the keys of scales 0 and 1 exchanged *)
feature_name_swapped(k) ==
    << "'VMAF_feature_vif_scale1_integer_score'", "'VMAF_feature_vif_scale0_integer_score'",
       "'VMAF_feature_vif_scale2_integer_score'",
       "'VMAF_feature_vif_scale3_integer_score'" >>[k + 1]

feature_name(k) ==
    << "'VMAF_feature_vif_scale0_integer_score'", "'VMAF_feature_vif_scale1_integer_score'",
       "'VMAF_feature_vif_scale2_integer_score'",
       "'VMAF_feature_vif_scale3_integer_score'" >>[k + 1]

(* what vmaf_feature_collector_append may return: 0 or a negative errno *)
AppendStatus == {0, -22, -12, -1}

(* err |= vmaf_feature_collector_append(feature_collector, name,
                                        scores[2k] / scores[2k + 1], index) *)
AppendScore ==
    /\ pc = "append" /\ nappend < 4
    /\ \E status \in AppendStatus :
          /\ sink' = Append(sink, [key |-> feature_name(nappend), index |-> index,
                                   num |-> scores[2 * nappend + 1],
                                   den |-> scores[2 * nappend + 2],
                                   status |-> status])
          /\ err' = BitOr(err, status)
    /\ nappend' = nappend + 1
    /\ UNCHANGED << s, pc, scale, buf_valid_w, buf_valid_h, curr, i, phase, acc, scores,
                    ret, events, sched, branch >>
    /\ Unchanged_io

Return ==
    /\ pc = "append" /\ nappend >= 4
    /\ ret' = err /\ pc' = "done"
    /\ UNCHANGED << s, scale, buf_valid_w, buf_valid_h, curr, i, phase, acc, scores, err,
                    nappend, sink, events, sched, branch >>
    /\ Unchanged_io

(* no function under test *)
NoUnit == [fn |-> "none", v |-> <<>>]
NoResult == [m |-> 0, x |-> 0, ub |-> FALSE]

(* what an out-of-bounds or unwritten read may yield; only a frame smaller
   than the kernels, or a distorted picture with padded rows, makes such
   reads                                                                  *)
Garbage(f) ==
    IF f.w < FrameW \/ f.h < FrameH \/ f.dis_pad > 0 THEN {0, 200} ELSE {0}

(* one call of extract on a frame pair, the arena fresh from init *)
Init ==
    \E k \in 1..Len(Frames) :
       LET f == Frames[k]
       IN  /\ ref_pic = Picture(f.bpc, f.w, f.h, f.ref)
           /\ dist_pic = PaddedPicture(f.bpc, f.w, f.h, f.dis, f.dis_pad)
           /\ index = k
           /\ garbage \in Garbage(f)
           /\ s = InitState(f.w, f.h)
           /\ pc = "scale" /\ scale = 0
           /\ buf_valid_w = f.w /\ buf_valid_h = f.h
           /\ curr = [in_arena |-> FALSE,
                      ref_stride |-> integer_stride(Picture(f.bpc, f.w, f.h, f.ref)),
                      dis_stride |-> integer_stride(Picture(f.bpc, f.w, f.h, f.ref))]
           /\ i = 0 /\ phase = "V" /\ acc = AccZero
           /\ scores = [n \in 1..8 |-> Unset]
           /\ err = 0 /\ nappend = 0 /\ sink = <<>> /\ ret = 0
           /\ events = {} /\ sched = <<>>
           /\ branch = [n \in 1..4 |-> BranchZero]
           /\ unit = NoUnit /\ unit_res = NoResult
           /\ life = Ready /\ heap = Acquired

Next ==
    \/ ScaleBegin
    \/ RdVertical
    \/ RdHorizontal
    \/ RdDecimate
    \/ FltVertical
    \/ FltHorizontal
    \/ FltReturn
    \/ StatRow
    \/ StatReturn
    \/ ScaleEnd
    \/ AppendScore
    \/ Return

Spec == Init /\ [][Next]_vars

(* ---------------- the two normalisations on their own ---------------- *)

NormSamples == 3

(* 2^e, and 2^e plus a run of low ones: 2^e + ((2^e - 1) >> k) *)
NormInputsAt(e) ==
    {Shl(<<1>>, e)}
    \cup {AddD(Shl(<<1>>, e), Shr(SubD(Shl(<<1>>, e), <<1>>), k)) : k \in 0..NormSamples}

NormInputs(width) == {<<>>} \cup UNION {NormInputsAt(e) : e \in 0..(width - 1)}

(* A result the build can produce.  A shift by a negative count and clz of 0
   are undefined: the mantissa may be 0, the low bits of the argument, or
   the argument shifted the other way.                                      *)
NormOutcomes(v, r) ==
    IF r.ub
    THEN {[m |-> mm, x |-> r.x, ub |-> TRUE] :
             mm \in {0, ToInt(LowDigits(v, 2)),
                     ToInt(LowDigits(Shl(v, IF r.x > 0 THEN r.x ELSE 0), 2))}}
    ELSE {r}

Norm32 ==
    /\ pc = "idle"
    /\ \E v \in NormInputs(32) :
          /\ unit' = [fn |-> "norm32", v |-> v]
          /\ unit_res' \in NormOutcomes(v, integer_get_best_16bits_opt_greater(v))
    /\ UNCHANGED << ref_pic, dist_pic, index, s, pc, scale, buf_valid_w, buf_valid_h,
                    curr, i, phase, acc, scores, err, nappend, sink, ret, garbage,
                    events, sched, branch, life, heap >>

Norm64 ==
    /\ pc = "idle"
    /\ \E v \in NormInputs(64) :
          /\ unit' = [fn |-> "norm64", v |-> v]
          /\ unit_res' \in NormOutcomes(v, integer_get_best_16bits_opt_64(v))
    /\ UNCHANGED << ref_pic, dist_pic, index, s, pc, scale, buf_valid_w, buf_valid_h,
                    curr, i, phase, acc, scores, err, nappend, sink, ret, garbage,
                    events, sched, branch, life, heap >>

InitNorm ==
    /\ ref_pic = Picture(8, 1, 1, Pat("const", 0, 0, 1))
    /\ dist_pic = Picture(8, 1, 1, Pat("const", 0, 0, 1))
    /\ index = 0 /\ garbage = 0
    /\ s = InitState(1, 1)
    /\ pc = "idle" /\ scale = 0
    /\ buf_valid_w = 1 /\ buf_valid_h = 1
    /\ curr = [in_arena |-> FALSE, ref_stride |-> 4, dis_stride |-> 4]
    /\ i = 0 /\ phase = "V" /\ acc = AccZero
    /\ scores = [n \in 1..8 |-> Unset]
    /\ err = 0 /\ nappend = 0 /\ sink = <<>> /\ ret = 0
    /\ events = {} /\ sched = <<>>
    /\ branch = [n \in 1..4 |-> BranchZero]
    /\ unit = NoUnit /\ unit_res = NoResult
    /\ life = Ready /\ heap = Acquired

NextNorm ==
    \/ Norm32
    \/ Norm64

SpecNorm == InitNorm /\ [][NextNorm]_vars

(* ---------------- the log table on its own ---------------- *)

LogStride == 257

(* the indices looked at: both ends of the range log_generate fills, every
   LogStride-th index between, and the index of the largest error         *)
LogInputs ==
    {LogFirst + k * LogStride : k \in 0..((Pow2(16) - 1 - LogFirst) \div LogStride)}
    \cup {LogFirst + 1, 56040, Pow2(16) - 1}

(* one turn of the loop of log_generate: log_values[n] is written *)
log_generate ==
    /\ pc = "idle" /\ unit.fn = "none"
    /\ \E n \in LogInputs :
          /\ unit' = [fn |-> "log", v |-> n]
          /\ unit_res' = [m |-> log_values(n), x |-> 0, ub |-> FALSE]
    /\ UNCHANGED << ref_pic, dist_pic, index, s, pc, scale, buf_valid_w, buf_valid_h,
                    curr, i, phase, acc, scores, err, nappend, sink, ret, garbage,
                    events, sched, branch, life, heap >>

NextLog == log_generate

SpecLog == InitNorm /\ [][NextLog]_vars

(* ---------------- init, extract, close on one instance ---------------- *)

MaxClose == 3

(* the frames the instance is created for: 16x16 and 1x1 *)
LifeFrames == {1, 7}

Fresh == [pc |-> "fresh", buf |-> "unset", init_ret |-> 0, closes |-> << >>]

(* init(fex, pix_fmt, bpc, w, h) with the frame's w and h: the strides are
   stored, the arena is asked for; without it init frees NULL and returns
   -ENOMEM, the views left as they were; with it the views are laid out.    *)
init ==
    /\ life.pc = "fresh"
    /\ \E p \in aligned_malloc :
          /\ s' = IF p = "NULL"
                  THEN [s EXCEPT !.buf_stride = ALIGN_CEIL(ref_pic.w * 4),
                                 !.buf_frame_size = ALIGN_CEIL(ref_pic.w * 4) * ref_pic.h]
                  ELSE InitState(ref_pic.w, ref_pic.h)
          /\ heap' = IF p = "NULL" THEN heap \o aligned_free(p, "init")
                     ELSE heap \o << [op |-> "acquire", blk |-> p, by |-> "init"] >>
          /\ life' = [pc |-> IF p = "NULL" THEN "failed" ELSE "ready", buf |-> p,
                      init_ret |-> init_return(p), closes |-> << >>]
    /\ UNCHANGED << ref_pic, dist_pic, index, pc, scale, buf_valid_w, buf_valid_h, curr,
                    i, phase, acc, scores, err, nappend, sink, ret, garbage, events,
                    sched, branch, unit, unit_res >>

(* extract is entered: its locals before the loop over the scales *)
extract ==
    /\ life.pc = "ready" /\ pc = "uncalled"
    /\ pc' = "scale" /\ scale' = 0
    /\ buf_valid_w' = ref_pic.w /\ buf_valid_h' = ref_pic.h
    /\ curr' = [in_arena |-> FALSE, ref_stride |-> integer_stride(ref_pic),
                dis_stride |-> integer_stride(ref_pic)]
    /\ UNCHANGED << s, i, phase, acc, scores, err, nappend, sink, ret, events, sched,
                    branch >>
    /\ Unchanged_io

(* the block s->buf points to has been released already *)
Released(p) == \E k \in 1..Len(heap) : heap[k].op = "release" /\ heap[k].blk = p

(* close: if (s->buf) aligned_free(s->buf); return 0.  s->buf keeps its
   value.  Freeing a block a second time is undefined: close returns 0 or
   the process is aborted by the allocator.                              *)
close ==
    /\ life.pc \in {"ready", "failed", "closed"} /\ pc \in {"uncalled", "done"}
    /\ Len(life.closes) < MaxClose
    /\ heap' = heap \o aligned_free(life.buf, "close")
    /\ \E returned \in (IF life.buf # "NULL" /\ Released(life.buf)
                         THEN BOOLEAN ELSE {TRUE}) :
          life' = [life EXCEPT !.pc = IF returned THEN "closed" ELSE "aborted",
                               !.closes = Append(@, [returned |-> returned, ret |-> 0])]
    /\ UNCHANGED << ref_pic, dist_pic, index, s, pc, scale, buf_valid_w, buf_valid_h,
                    curr, i, phase, acc, scores, err, nappend, sink, ret, garbage,
                    events, sched, branch, unit, unit_res >>

InitLife ==
    \E k \in LifeFrames :
       LET f == Frames[k]
       IN  /\ ref_pic = Picture(f.bpc, f.w, f.h, f.ref)
           /\ dist_pic = PaddedPicture(f.bpc, f.w, f.h, f.dis, f.dis_pad)
           /\ index = k
           /\ garbage \in Garbage(f)
           /\ s = FreshState
           /\ pc = "uncalled" /\ scale = 0
           /\ buf_valid_w = 0 /\ buf_valid_h = 0
           /\ curr = [in_arena |-> FALSE, ref_stride |-> 0, dis_stride |-> 0]
           /\ i = 0 /\ phase = "V" /\ acc = AccZero
           /\ scores = [n \in 1..8 |-> Unset]
           /\ err = 0 /\ nappend = 0 /\ sink = <<>> /\ ret = 0
           /\ events = {} /\ sched = <<>>
           /\ branch = [n \in 1..4 |-> BranchZero]
           /\ unit = NoUnit /\ unit_res = NoResult
           /\ life = Fresh /\ heap = << >>

NextLife ==
    \/ init
    \/ extract
    \/ close
    \/ Next

SpecLife == InitLife /\ [][NextLife]_vars

(* ---------------- properties ---------------- *)

(* the magnitude of a binary32 value in units of 2^e0 *)
FMag(f, e0) == IF f.s = 0 THEN <<>> ELSE Shl(FromInt(f.m), f.e - e0)

(* |num - den| * k <= den, for a machine integer 0 < k < 2^22 *)
Within(num, den, k) ==
    LET e0   == Min(IF num.s = 0 THEN den.e ELSE num.e, den.e)
        N    == FMag(num, e0)
        D    == FMag(den, e0)
        diff == IF num.s < 0 THEN AddD(N, D)
                ELSE IF CmpD(N, D) >= 0 THEN SubD(N, D) ELSE SubD(D, N)
    IN  den.s > 0 /\ CmpD(MulInt(diff, k), D) <= 0

Identical == ref_pic.data = dist_pic.data
FullSize  == ref_pic.w >= 16 /\ ref_pic.h >= 16
Computed(sc) == scores[2 * sc + 2] # Unset
HighVar(sc) == branch[sc + 1].log + branch[sc + 1].neg + branch[sc + 1].fallback
Pixels(sc) == (ref_pic.w \div Pow2(sc)) * (ref_pic.h \div Pow2(sc))

(* C1, as the claim states it: with dis identical to ref, each of the four
   scores num_s / den_s is within 1e-6 of 1.0, that is |num_s - den_s| *
   10^6 <= den_s.  It is stated here for frames of at least 16x16 only, on
   which every read of the filters is in bounds.                           *)
C1_AsStated ==
    Identical /\ FullSize =>
       \A sc \in 0..3 :
          Computed(sc) => Within(scores[2 * sc + 1], scores[2 * sc + 2], 1000000)

(* C1, amended: with dis identical to ref and a frame of at least 16x16,
   each of the four scores is within 1e-3 of 1.0 (|num_s - den_s| * 10^3 <=
   den_s); low-variance pixels with nonzero sigma2_sq and log-branch pixels
   each pull the score below 1.0 by more than 1e-6.                        *)
C1_Amended ==
    Identical /\ FullSize =>
       \A sc \in 0..3 :
          Computed(sc) => Within(scores[2 * sc + 1], scores[2 * sc + 2], 1000)

(* identical frames whose scale 0 has log-branch pixels and whose scale 1
   has low-variance pixels of nonzero variance, all four scores appended  *)
C1_Witness ==
    /\ pc = "done" /\ Identical /\ FullSize
    /\ branch[1].log > 0
    /\ branch[2].low > 0 /\ branch[2].nonzero > 0
    /\ scores[1] # scores[2]

(* C2, as the claim states it: at every scale where at least one pixel took
   the high-variance branch, the statistic returns num_s >= 0 and den_s > 0. *)
C2_AsStated ==
    \A sc \in 0..3 :
       Computed(sc) /\ HighVar(sc) >= 1 =>
          scores[2 * sc + 1].s >= 0 /\ scores[2 * sc + 2].s > 0

(* the four keys, spelled as extract passes them *)
KeyOf(sc) ==
    CASE sc = 0 -> "'VMAF_feature_vif_scale0_integer_score'"
      [] sc = 1 -> "'VMAF_feature_vif_scale1_integer_score'"
      [] sc = 2 -> "'VMAF_feature_vif_scale2_integer_score'"
      [] sc = 3 -> "'VMAF_feature_vif_scale3_integer_score'"

(* C3: extract appends exactly four values, in the order scale 0, 1, 2, 3,
   the k-th under the key of scale k (quote characters included), with the
   frame's index and the value num_k / den_k of that scale; nothing is
   appended before all four scales have been computed.                     *)
C3_FourAppendsInOrder ==
    /\ Len(sink) = nappend /\ nappend <= 4
    /\ (pc = "done" => Len(sink) = 4)
    /\ (Len(sink) > 0 => scale = 4 /\ \A sc \in 0..3 : Computed(sc))
    /\ \A k \in 1..Len(sink) :
          /\ sink[k].key = KeyOf(k - 1)
          /\ sink[k].index = index
          /\ sink[k].num = scores[2 * (k - 1) + 1]
          /\ sink[k].den = scores[2 * (k - 1) + 2]

(* extract has returned on a frame whose four scores differ from one another *)
C3_Witness ==
    /\ pc = "done" /\ Len(sink) = 4
    /\ \A k \in 1..3 : sink[k].num # sink[k + 1].num
    /\ sink[1].key = "'VMAF_feature_vif_scale0_integer_score'"

(* bit b (0..31) of a 32-bit two's complement integer *)
BitOf(n, b) == IF b = 31 THEN (IF n < 0 THEN 1 ELSE 0) ELSE (n \div Pow2(b)) % 2

(* C4: whatever the four appends return, all four are attempted, and extract
   returns the bitwise OR of the four statuses: 0 iff all four were 0.     *)
C4_AllAttemptedOrReturned ==
    /\ (pc = "append" /\ nappend < 4 => ENABLED AppendScore)
    /\ (pc = "done" =>
          /\ Len(sink) = 4
          /\ \A b \in 0..31 :
                BitOf(ret, b) = 1 <=> \E k \in 1..4 : BitOf(sink[k].status, b) = 1
          /\ (ret = 0 <=> \A k \in 1..4 : sink[k].status = 0))

(* extract has returned after a failed, a successful and two different
   failed appends                                                          *)
C4_Witness ==
    /\ pc = "done"
    /\ sink[1].status # 0 /\ sink[2].status = 0
    /\ sink[3].status # 0 /\ sink[4].status # 0
    /\ sink[3].status # sink[4].status
    /\ ret # 0

ConstantPlanes ==
    /\ Identical
    /\ \A off \in DOMAIN ref_pic.data : ref_pic.data[off] = ref_pic.data[0]

(* C5: for ref = dis = one constant sample value, frame at least 16x16, at
   every scale every pixel has sigma1_sq = sigma2_sq = 0 and takes the
   low-variance branch, num_s = den_s = number of pixels of the scale, and
   every appended score is exactly 1.0.                                    *)
C5_ConstantPlane ==
    ConstantPlanes /\ FullSize =>
       /\ \A sc \in 0..3 :
             /\ branch[sc + 1].nonzero = 0
             /\ HighVar(sc) = 0
             /\ Computed(sc) =>
                   /\ branch[sc + 1].low = Pixels(sc)
                   /\ scores[2 * sc + 1] = FFromInt(Pixels(sc))
                   /\ scores[2 * sc + 2] = FFromInt(Pixels(sc))
       /\ \A k \in 1..Len(sink) : sink[k].num = sink[k].den /\ sink[k].den.s > 0

(* extract has returned on a 10-bit constant plane *)
C5_Witness ==
    /\ pc = "done" /\ ConstantPlanes /\ FullSize
    /\ ref_pic.bpc = 10 /\ ref_pic.data[0] > 0
    /\ branch[4].low = Pixels(3)

(* C6, as the claim states it: on a 1x1 frame every scale's statistic runs
   over a non-empty area of low-variance pixels and the appended score is
   exactly 1.0 (num_s = den_s > 0).                                        *)
C6_AsStated ==
    pc = "done" /\ ref_pic.w = 1 /\ ref_pic.h = 1 =>
       \A k \in 1..4 :
          /\ branch[k].low >= 1 /\ HighVar(k - 1) = 0
          /\ sink[k].num = sink[k].den /\ sink[k].den.s > 0

LossyEvents ==
    {"wrap_mu", "wrap_sq", "narrow_mu", "narrow_sq", "sigma_int32"}

(* C7: on a frame of valid samples no arithmetic wraps or truncates: the
   32-bit mean accumulators and the 64-bit square and cross accumulators,
   rounding constant added, stay within their width, every narrowed store
   keeps its value, and sigma1_sq, sigma2_sq, sigma12, sigma_nsq +
   sigma1_sq and sigma2_sq + sigma_nsq fit in signed 32 bits.              *)
C7_NoWrapNoTruncation ==
    FullSize => events \cap LossyEvents = {}

(* all four scales done on the frame of largest samples, 16-bit all ones,
   and on no pixel anything was lost                                       *)
C7_Witness ==
    /\ pc = "done" /\ ref_pic.bpc = 16
    /\ \A off \in DOMAIN ref_pic.data : ref_pic.data[off] = 65535
    /\ events = {}

(* C8: the schedule of specializations and constants.  The calls extract
   makes are, in order, the statistic filter of scale 0, then for s = 1..3
   the reduce filter entering scale s and the statistic filter of scale s.
   The 8-bit functions run only for B = 8, at the statistic of scale 0 and
   the reduce entering scale 1; those two calls shift the vertical pass by B
   with rounding 2^(B-1), the statistic of scale 0 shifting squares by
   2(B-8) with rounding 2^(2(B-8)-1), 0 when B = 8; every other call shifts
   the vertical pass by 16 with rounding 32768; every horizontal pass shifts
   by 16 with rounding 32768; the reduce entering scale s and the statistic
   of scale s take the kernel of scale s.                                  *)
C8_Schedule ==
    LET B == ref_pic.bpc
        IsRd(c)  == c.fn \in {"rdCombine_8", "rdCombine_16"}
        IsFlt(c) == c.fn \in {"combined_8", "combined_16"}
    IN  /\ Len(sched) <= 7
        /\ (pc = "done" => Len(sched) = 7)
        /\ \A k \in 1..Len(sched) :
              LET c == sched[k]
              IN  /\ c.scale = k \div 2
                  /\ (IF k % 2 = 1 THEN IsFlt(c) ELSE IsRd(c))
                  /\ (c.fn = "combined_8" <=> IsFlt(c) /\ B = 8 /\ c.scale = 0)
                  /\ (c.fn = "rdCombine_8" <=> IsRd(c) /\ B = 8 /\ c.scale = 1)
                  /\ c.kernel = vif_filter1d_table[c.scale + 1]
                  /\ c.cfg.shift_HP = 16 /\ c.cfg.round_HP = 32768
                  /\ (IF (IsFlt(c) /\ c.scale = 0) \/ (IsRd(c) /\ c.scale = 1)
                      THEN c.cfg.shift_VP = B /\ c.cfg.round_VP = Pow2(B - 1)
                      ELSE c.cfg.shift_VP = 16 /\ c.cfg.round_VP = 32768)
                  /\ (IsFlt(c) /\ c.scale = 0 =>
                         /\ c.cfg.shift_VP_sq = 2 * (B - 8)
                         /\ c.cfg.round_VP_sq = IF B = 8 THEN 0
                                                ELSE Pow2(2 * (B - 8) - 1))
                  /\ (IsFlt(c) /\ c.scale > 0 =>
                         c.cfg.shift_VP_sq = 16 /\ c.cfg.round_VP_sq = 32768)

(* all seven calls made on a 10-bit frame: the 16-bit functions with the
   shifts of the bit depth                                                 *)
C8_Witness ==
    /\ Len(sched) = 7 /\ ref_pic.bpc = 10
    /\ sched[1].fn = "combined_16" /\ sched[1].cfg.shift_VP_sq = 4
    /\ sched[2].fn = "rdCombine_16" /\ sched[2].cfg.shift_VP = 10

(* C9: once the reduce entering scale s (1..3) and the decimation are done,
   the plane the statistic of scale s reads is floor(w/2) x floor(h/2) for
   the blurred w x h plane and is its pure decimation: ref[i][j] =
   mu1[2i][2j] and dis[i][j] = mu2[2i][2j], rows of all four planes being
   addressed by the one arena stride that the reading filter uses too.     *)
C9_Decimation ==
    pc \in {"flt", "stat"} /\ scale >= 1 =>
       LET px == s.buf_stride \div 4
       IN  /\ buf_valid_w = (ref_pic.w \div Pow2(scale - 1)) \div 2
           /\ buf_valid_h = (ref_pic.h \div Pow2(scale - 1)) \div 2
           /\ curr.in_arena
           /\ curr.ref_stride = s.buf_stride /\ curr.dis_stride = s.buf_stride
           /\ \A r \in 0..(buf_valid_h - 1), c \in 0..(buf_valid_w - 1) :
                 /\ Written(s.integer_mu1, 2 * r * px + 2 * c)
                 /\ Written(s.integer_mu2, 2 * r * px + 2 * c)
                 /\ s.integer_ref_scale[r * px + c] = s.integer_mu1[2 * r * px + 2 * c]
                 /\ s.integer_dis_scale[r * px + c] = s.integer_mu2[2 * r * px + 2 * c]

(* the statistic filter of scale 1 is about to read a decimated plane whose
   blurred source has neighbouring samples that differ                     *)
C9_Witness ==
    /\ pc = "flt" /\ scale = 1 /\ i = 0 /\ buf_valid_w = ref_pic.w \div 2
    /\ \E c \in 0..(buf_valid_w - 1) :
          s.integer_mu1[2 * c] # s.integer_mu1[2 * c + 1]
    /\ s.integer_ref_scale[1] = s.integer_mu1[2]

(* the result inverts denormalisation of the argument *)
NormInverts(u, r) ==
    /\ ~r.ub
    /\ r.m >= Pow2(14) /\ r.m < Pow2(16)
    /\ IF r.x <= 0
       THEN /\ CmpD(Shl(FromInt(r.m), -r.x), u.v) <= 0
            /\ CmpD(u.v, Shl(FromInt(r.m + 1), -r.x)) < 0
       ELSE u.fn = "norm64" /\ FromInt(r.m) = Shl(u.v, r.x)

(* C10, as the claim states it: for every v >= 2^14, norm32 and norm64
   return a mantissa in [2^14, 2^16) and an exponent x with m * 2^(-x) <= v
   < (m + 1) * 2^(-x) for x <= 0 and m = v * 2^x for x > 0 (norm64 only),
   and shift by no negative amount.                                        *)
C10_AsStated ==
    unit.fn # "none" /\ CmpD(unit.v, Shl(<<1>>, 14)) >= 0 => NormInverts(unit, unit_res)

(* C10, amended: the same for norm64 on every v >= 2^14 and for norm32 on
   every v >= 2^15; norm32 shifts by a negative amount for v below 2^15.   *)
C10_Amended ==
    /\ unit.fn = "norm64" /\ CmpD(unit.v, Shl(<<1>>, 14)) >= 0
          => NormInverts(unit, unit_res)
    /\ unit.fn = "norm32" /\ CmpD(unit.v, Shl(<<1>>, 15)) >= 0
          => NormInverts(unit, unit_res)

(* norm32 has run on 2^15, the least argument it shifts by 0 *)
C10_Witness ==
    /\ unit.fn = "norm32" /\ unit.v = Shl(<<1>>, 15)
    /\ unit_res.x = 0 /\ unit_res.m = Pow2(15)

RECURSIVE SumTaps(_, _)
SumTaps(f, k) == IF k > Len(f) THEN 0 ELSE f[k] + SumTaps(f, k + 1)

(* C11: the kernel extract takes at each scale has the odd width listed for
   the scale (17, 9, 5, 3), is symmetric (tap k equals tap width - 1 - k)
   and its taps sum to exactly 2^16; so has every kernel a filter call was
   given.                                                                  *)
C11_Kernels ==
    /\ scale < 4 =>
          /\ filter_width = << 17, 9, 5, 3 >>[scale + 1]
          /\ filter_width % 2 = 1
          /\ Len(integer_filter) = filter_width
          /\ \A k \in 1..filter_width :
                integer_filter[k] = integer_filter[filter_width + 1 - k]
          /\ SumTaps(integer_filter, 1) = 65536
    /\ \A c \in 1..Len(sched) :
          /\ Len(sched[c].kernel) = << 17, 9, 5, 3 >>[sched[c].scale + 1]
          /\ SumTaps(sched[c].kernel, 1) = 65536

(* the statistic filter of scale 3 runs with the 3-tap kernel, every kernel
   of the bank having been handed to a filter                              *)
C11_Witness ==
    /\ pc = "flt" /\ scale = 3 /\ Len(sched) = 7
    /\ filter_width = 3 /\ integer_filter[2] = 43728

ViewNames == {ViewOrder[k] : k \in 1..Len(ViewOrder)}

Releases == {k \in 1..Len(heap) : heap[k].op = "release"}
Acquisitions == {k \in 1..Len(heap) : heap[k].op = "acquire"}

(* C12: once the arena allocation of init has failed, init has returned the
   negative status -ENOMEM, the instance holds no arena (s->buf is NULL,
   nothing is allocated) and no arena view, and every close made since has
   returned 0 and released nothing.                                        *)
C12_FailedInit ==
    life.pc # "fresh" /\ life.buf = "NULL" =>
       /\ life.init_ret = -ENOMEM /\ life.init_ret < 0
       /\ \A v \in ViewNames : s[v] = NoView
       /\ heap = << >>
       /\ \A k \in 1..Len(life.closes) :
             life.closes[k].returned /\ life.closes[k].ret = 0

(* init has failed and close has been called twice since *)
C12_Witness ==
    /\ life.buf = "NULL" /\ life.init_ret < 0
    /\ Len(life.closes) = 2 /\ life.pc = "closed"

(* C13, as the claim states it: the arena is acquired inside init only,
   never inside extract, and an arena acquired by a successful init is
   released exactly once: by the first close, and by no later close.       *)
C13_AsStated ==
    /\ \A k \in Acquisitions : heap[k].by = "init"
    /\ Cardinality(Releases) <= 1
    /\ (life.buf = "arena" /\ Len(life.closes) >= 1 => Cardinality(Releases) = 1)

(* C14, as the claim states it: at either edge and on either axis a tap d
   steps outside the plane reads the sample d steps inside the edge sample:
   index -d reads index d, index (N - 1) + d reads index (N - 1) - d; one
   step outside reads index 1, respectively N - 2.  Stated for the filters
   running on a frame of at least 16x16.                                   *)
C14_AsStated ==
    pc \in {"rd", "flt"} /\ FullSize /\ i < buf_valid_h =>
       /\ \A fi \in 0..(filter_width - 1) :
             LET ii == i - filter_width \div 2 + fi
             IN  /\ ii < 0 => TapRow(fi) = -ii
                 /\ ii >= buf_valid_h =>
                       TapRow(fi) = (buf_valid_h - 1) - (ii - (buf_valid_h - 1))
       /\ \A j \in 0..(buf_valid_w - 1), fj \in 0..(filter_width - 1) :
             LET jj == j - filter_width \div 2 + fj
             IN  /\ jj < 0 => TapCol(j, fj) = -jj
                 /\ jj >= buf_valid_w =>
                       TapCol(j, fj) = (buf_valid_w - 1) - (jj - (buf_valid_w - 1))

(* C15: the sixteen views init fixes lie one after the other from the start
   of the allocation, four of half a frame, five of a frame and seven of a
   row stride, so they are pairwise disjoint and fill exactly the 7 frame
   sizes plus 7 row strides allocated; and no write of extract through a
   view, with the element size used for it, leaves the view's own bytes.   *)
C15_Views ==
    life.pc = "ready" =>
       LET a == s.arena
       IN  /\ Len(a.base) = 16 /\ Len(a.size) = 16
           /\ a.buf_size = 7 * s.buf_frame_size + 7 * s.buf_stride
           /\ a.base[1] = 0 /\ a.base[16] + a.size[16] = a.buf_size
           /\ \A k \in 1..16 :
                 /\ a.size[k] = IF k <= 4 THEN s.buf_frame_size \div 2
                                ELSE IF k <= 9 THEN s.buf_frame_size ELSE s.buf_stride
                 /\ a.size[k] > 0
                 /\ a.base[k] >= 0 /\ a.base[k] + a.size[k] <= a.buf_size
           /\ \A k \in 1..15 : a.base[k] + a.size[k] = a.base[k + 1]
           /\ \A k1, k2 \in 1..16 :
                 k1 # k2 => \/ a.base[k1] + a.size[k1] <= a.base[k2]
                            \/ a.base[k2] + a.size[k2] <= a.base[k1]
           /\ "write_outside_view" \notin events

(* extract has gone through every scale of a 16-bit 16x16 frame, all
   sixteen views written through                                           *)
C15_Witness ==
    /\ pc = "done" /\ FullSize /\ ref_pic.bpc = 16 /\ life.pc = "ready"
    /\ s.arena.base[16] = s.arena.buf_size - s.buf_stride
    /\ Written32(s.tmp_ref_dis, 0) /\ Written(s.integer_dis_scale, 0)
    /\ Written32(s.integer_ref_dis_filt, 15 * (s.buf_stride \div 4) + 15)

(* Bits k..20 of the binary fraction of log2(Y / 2^30) for 2^30 <= Y <=
   2^31, by squaring: with up FALSE every quotient is rounded down and the
   bits are a lower bound, with up TRUE every quotient is rounded up and
   the bits plus one unit of 2^-20 are an upper bound.                     *)
RECURSIVE Log2Bits(_, _, _)
Log2Bits(Y, k, up) ==
    LET Step(sq) ==
            IF CmpD(sq, TwoTo31) >= 0
            THEN Pow2(20 - k)
                 + Log2Bits(Shr(IF up THEN AddD(sq, << 1 >>) ELSE sq, 1), k + 1, up)
            ELSE Log2Bits(sq, k + 1, up)
        Square(p) ==
            Step(Shr(IF up THEN AddD(p, SubD(Shl(<< 1 >>, 30), << 1 >>)) ELSE p, 30))
    IN  IF k > 20 THEN 0 ELSE Square(MulD(Y, Y))

(* bounds of log2(n) in units of 2^-20, for 0 < n < 2^16 *)
Log2Lo(n) ==
    (BitLenInt(n) - 1) * Pow2(20)
    + Log2Bits(Shl(FromInt(n), 30 - (BitLenInt(n) - 1)), 1, FALSE)
Log2Hi(n) ==
    (BitLenInt(n) - 1) * Pow2(20)
    + Log2Bits(Shl(FromInt(n), 30 - (BitLenInt(n) - 1)), 1, TRUE) + 1

(* C16: an entry log_values[n] written by log_generate, 32767 <= n <= 65535,
   is within 1e-3 of log2(n) when divided by 2048: in units of 2^-20, with
   1e-3 * 2^20 = 1048.576, the entry times 512 is at most 1048 above the
   lower bound of log2(n) and at most 1048 below its upper bound.           *)
C16_LogTable ==
    unit.fn = "log" =>
       /\ unit.v >= 32767 /\ unit.v <= 65535
       /\ unit_res.m * 512 - Log2Lo(unit.v) <= 1048
       /\ Log2Hi(unit.v) - unit_res.m * 512 <= 1048
       /\ Log2Hi(unit.v) - Log2Lo(unit.v) <= 4

(* the entry of largest error has been written: 32306 for index 56040,
   which is 0.000245 above log2(56040)                                     *)
C16_Witness ==
    /\ unit.fn = "log" /\ unit.v = 56040 /\ unit_res.m = 32306
    /\ unit_res.m * 512 - Log2Lo(unit.v) > 250

(* C17 as stated: a pixel with sigma1_sq >= sigma_nsq, sigma12 >= 0 and
   denom <= 0 adds sigma2_sq and 1 to the non-log accumulators and nothing
   to the log side of den.  While a scale is in vif_statistic, then,
   accum_den_non_log counts the low-variance and the fallback pixels and
   num_accum_x counts only the pixels of the two log branches.             *)
C17_AsStated ==
    pc = "stat" =>
        /\ acc.den_non_log = branch[scale + 1].low + branch[scale + 1].fallback
        /\ acc.nx = branch[scale + 1].log + branch[scale + 1].neg

(* C18: every index with which vif_statistic reads log_values (log_den1,
   numlog, denlog) is one that log_generate has written, 32767..65535, and
   integer_get_best_16bits_opt_64 is never handed 0 before the numlog read. *)
C18_LogIndices ==
    /\ "log_unwritten" \notin events
    /\ "clz_zero" \notin events

(* a scale has been through vif_statistic with pixels on the log branch
   (three reads each) and on the fallback branch (normalised, one read)     *)
C18_Witness ==
    /\ pc = "done"
    /\ \E k \in 1..4 : branch[k].log > 0 /\ branch[k].fallback > 0
    /\ C18_LogIndices

(* C19, as the claim states it: whatever the frame size, while a reduce or
   statistic filter is on row i every tap's mirrored row index is a row of
   the plane being filtered, 0..h-1, and for every output column every
   tap's mirrored column index is a column of it, 0..w-1.                  *)
C19_AsStated ==
    pc \in {"rd", "flt"} /\ i < buf_valid_h =>
       /\ \A fi \in 0..(filter_width - 1) : TapRow(fi) \in 0..(buf_valid_h - 1)
       /\ \A j \in 0..(buf_valid_w - 1), fj \in 0..(filter_width - 1) :
             TapCol(j, fj) \in 0..(buf_valid_w - 1)

(* C20, as the claim states it: when the two pictures differ in row stride,
   the filters that read the pictures themselves (the statistic filter at
   scale 0, the reduce filter entering scale 1) take for dis at (y, x) the
   distorted picture's sample at (y, x), y rows of its own stride down.     *)
C20_AsStated ==
    pc \in {"flt", "rd"} /\ ~curr.in_arena /\ dist_pic.stride # ref_pic.stride =>
       \A y \in 0..(buf_valid_h - 1), x \in 0..(buf_valid_w - 1) :
          Rd16(CurrDis, y * (curr.dis_stride \div 4) + x)
             = dist_pic.data[y * (dist_pic.stride \div SampleBytes(dist_pic.bpc)) + x]

====
